---- MODULE Spec2Model ----
(***************************************************************************)
(* Model of src/app.py: a personal finance ledger over four SQLite tables  *)
(* (expenses, income, category_budget, financial_goals) driven by a text   *)
(* menu.                                                                   *)
(*                                                                         *)
(* Amounts are REAL columns / Python floats; they are modelled by integers *)
(* (exact for whole amounts), and the progress percentage, the only        *)
(* quotient, by an exact rational [n, d] in lowest terms.  The description *)
(* column (free text, sliced to 24 characters by the menu) takes part in   *)
(* no computation and is left out of the rows.                             *)
(***************************************************************************)
EXTENDS Integers, Sequences, FiniteSets, TLC

VARIABLES
    expenses,           \* table expenses: id -> [date, category, amount]
    income,             \* table income: id -> [date, category, amount]
    category_budget,    \* table category_budget: id -> [date, category, amount]
    financial_goals,    \* table financial_goals: id -> [date, financial_goal_amt,
                        \*     allotted_amount, req_amount, progress]
    status,             \* "running", "crashed" (uncaught exception), "stopped" (quit)
    out,                \* what the last handler printed: [msg, val]
    amount,             \* module-level name `amount` of the menu loop (<<>>: unbound)
    ID,                 \* module-level name `ID`
    financial_goal_amt, \* module-level name `financial_goal_amt`
    allotted_amount,    \* module-level name `allotted_amount`
    notice,             \* what the menu's except clause printed in the last handler
    txn                 \* a goal update of a second run of the program on the same
                        \* database file, between its SELECT and its UPDATE:
                        \* [op, id, arg, read], <<>> when there is none

db == <<expenses, income, category_budget, financial_goals>>
session == <<amount, ID, financial_goal_amt, allotted_amount, notice>>
vars == <<expenses, income, category_budget, financial_goals, status, out,
          amount, ID, financial_goal_amt, allotted_amount, notice, txn>>

----------------------------------------------------------------------------
(* Bounds of the model. *)

\* Largest row id a table hands out: an insert that would pass it is not taken.
MaxId == 2

----------------------------------------------------------------------------
(* Values. *)

\* SQL NULL / Python None, and a present value v as <<v>>.
NULL == <<>>

Value(x) == x[1]

Max(S) == CHOOSE x \in S : \A y \in S : y <= x

Abs(x) == IF x < 0 THEN -x ELSE x

RECURSIVE Gcd(_, _)
Gcd(a, b) == IF b = 0 THEN a ELSE Gcd(b, a % b)

\* The rational n/d (d # 0) in lowest terms with a positive denominator.
Ratio(n, d) ==
    LET g == Gcd(Abs(n), Abs(d))
        s == IF d < 0 THEN -1 ELSE 1
    IN  [n |-> (s * n) \div g, d |-> (s * d) \div g]

\* Python round(n/d, 2) as an integer number of hundredths: round half to even.
RoundHundredths(n, d) ==
    LET N == Abs(n) * 100
        D == Abs(d)
        q == N \div D
        r == N % D
        m == IF 2 * r < D THEN q
             ELSE IF 2 * r > D THEN q + 1
             ELSE IF q % 2 = 0 THEN q ELSE q + 1
    IN  IF (n < 0) = (d < 0) THEN m ELSE -m

\* (allotted_amount / financial_goal_amt) * 100, not rounded.
Percent(a, g) == Ratio(100 * a, g)

\* Mutant of RoundedPercent: the hundredths cut off instead of rounded.
TruncatedPercent(a, g) ==
    LET h == (Abs(100 * a) * 100) \div Abs(g)
    IN  Ratio(IF (a < 0) = (g < 0) THEN h ELSE -h, 100)

\* round((allotted_amount / financial_goal_amt) * 100, 2)
RoundedPercent(a, g) == Ratio(RoundHundredths(100 * a, g), 100)

----------------------------------------------------------------------------
(* The store. *)

\* INTEGER PRIMARY KEY without AUTOINCREMENT: a new row gets the largest
\* rowid in the table plus one, 1 in an empty table.
NewId(t) == IF DOMAIN t = {} THEN 1 ELSE Max(DOMAIN t) + 1

Insert(t, row) == [i \in DOMAIN t \cup {NewId(t)} |-> IF i \in DOMAIN t THEN t[i] ELSE row]

Delete(t, id) == [i \in DOMAIN t \ {id} |-> t[i]]

RECURSIVE SumOver(_, _)
SumOver(col, ids) ==
    IF ids = {} THEN 0
    ELSE LET i == CHOOSE x \in ids : TRUE
         IN  col[i] + SumOver(col, ids \ {i})

\* SELECT SUM(col): NULL when no row is selected.
SqlSum(col) == IF DOMAIN col = {} THEN NULL ELSE <<SumOver(col, DOMAIN col)>>

AmountsOf(t) == [i \in DOMAIN t |-> t[i].amount]

AmountsOfCategory(t, category) ==
    [i \in {j \in DOMAIN t : t[j].category = category} |-> t[i].amount]

----------------------------------------------------------------------------
(* The fixed category lists. *)

expense_categories ==
    << "Bond/Rent", "Rates & taxes", "Household", "Vehicle/Transport", "Children",
       "Insurance", "Investments/savings", "Retail accounts", "Loans", "Clothing",
       "Entertainment", "Eating out", "Other" >>

income_categories ==
    << "Salary", "Investments", "Profit", "Interest", "Rental income", "Other income" >>

Range(s) == {s[i] : i \in DOMAIN s}

Min(S) == CHOOSE x \in S : \A y \in S : x <= y

\* Mutant of InsertByDateDesc: a row goes before the rows of its own date.
InsertByDateDesc_BeforeTies(t, s, i) ==
    LET p == Cardinality({n \in 1..Len(s) : t[s[n]].date > t[i].date})
    IN  SubSeq(s, 1, p) \o <<i>> \o SubSeq(s, p + 1, Len(s))

\* ORDER BY date DESC as SQLite's sorter does it: the rows arrive in rowid
\* order and a row goes behind every row whose date is not smaller.
InsertByDateDesc(t, s, i) ==
    LET p == Cardinality({n \in 1..Len(s) : t[s[n]].date >= t[i].date})
    IN  SubSeq(s, 1, p) \o <<i>> \o SubSeq(s, p + 1, Len(s))

RECURSIVE OrderByDateDesc(_, _, _)
OrderByDateDesc(t, ids, s) ==
    IF ids = {} THEN s
    ELSE OrderByDateDesc(t, ids \ {Min(ids)}, InsertByDateDesc(t, s, Min(ids)))

\* SELECT date, description, amount FROM t WHERE category = ? ORDER BY date DESC
SelectByCategory(t, category) ==
    LET ids == OrderByDateDesc(t, {i \in DOMAIN t : t[i].category = category}, <<>>)
    IN  [k \in 1..Len(ids) |-> [date |-> t[ids[k]].date, amount |-> t[ids[k]].amount]]

----------------------------------------------------------------------------
(* Aggregates. *)

view_total_expenses ==
    LET total == SqlSum(AmountsOf(expenses))
    IN  IF total # NULL THEN Value(total) ELSE 0

\* Mutant of expense_category_total: the WHERE clause is missing.
expense_category_total_AllRows(category) ==
    LET total == SqlSum(AmountsOf(expenses))
    IN  IF total # NULL THEN Value(total) ELSE 0

expense_category_total(category) ==
    LET total == SqlSum(AmountsOfCategory(expenses, category))
    IN  IF total # NULL THEN Value(total) ELSE 0

view_total_income ==
    LET total == SqlSum(AmountsOf(income))
    IN  IF total # NULL THEN Value(total) ELSE 0

income_category_total(category) ==
    LET total == SqlSum(AmountsOfCategory(income, category))
    IN  IF total # NULL THEN Value(total) ELSE 0

\* Mutant of get_budget_amount: the most recent budget record of the category.
get_budget_amount_Latest(category) ==
    LET rows == {i \in DOMAIN category_budget : category_budget[i].category = category}
    IN  IF rows = {} THEN 0 ELSE category_budget[Max(rows)].amount

get_budget_amount(category) ==
    LET budget_amount == SqlSum(AmountsOfCategory(category_budget, category))
    IN  IF budget_amount # NULL THEN Value(budget_amount) ELSE 0

return_financial_goals_total ==
    LET goals_total ==
            SqlSum([i \in DOMAIN financial_goals |-> financial_goals[i].financial_goal_amt])
    IN  IF goals_total # NULL THEN Value(goals_total) ELSE 0

return_allotted_amount_total ==
    LET amount_total ==
            SqlSum([i \in DOMAIN financial_goals |-> financial_goals[i].allotted_amount])
    IN  IF amount_total # NULL THEN Value(amount_total) ELSE 0

\* Mutant of get_available_funds: the goals' allotments are not deducted.
get_available_funds_NoGoals ==
    LET total_income == view_total_income
        total_expenses == view_total_expenses
    IN  total_income - total_expenses

get_available_funds ==
    LET total_income == view_total_income
        total_expenses == view_total_expenses
        allotted_total == return_allotted_amount_total
    IN  total_income - total_expenses - allotted_total

----------------------------------------------------------------------------
(* Output of a handler: which handler ran, the message it prints last, the  *)
(* category it names and the figures it shows.                             *)

Printed(op, msg, category, val) ==
    [op |-> op, msg |-> msg, category |-> category, val |-> val, pct |-> NULL]

\* An exception no caller catches ends the process; `with db:` rolls back
\* and nothing was written before the raise.
Crash(op, exception) ==
    /\ status' = "crashed"
    /\ out' = Printed(op, exception, "", <<>>)
    /\ UNCHANGED db

InvalidId(op) ==
    /\ out' = Printed(op, "Invalid id entered.", "", <<>>)
    /\ UNCHANGED <<db, status>>

----------------------------------------------------------------------------
(* Expenses. *)

view_expenses ==
    /\ out' = Printed("view_expenses", "EXPENSES", "", <<view_total_expenses>>)
    /\ UNCHANGED <<db, status>>

\* The figures shown are the number of rows listed and the category total;
\* rows is the table printed, a date and an amount per row.
view_expenses_by_category(category) ==
    /\ out' = [op |-> "view_expenses_by_category", msg |-> "item/s for",
               category |-> category,
               val |-> <<Cardinality({i \in DOMAIN expenses : expenses[i].category = category}),
                         expense_category_total(category)>>,
               pct |-> NULL,
               rows |-> SelectByCategory(expenses, category)]
    /\ UNCHANGED <<db, status>>

add_expense(date, category, amt) ==
    /\ NewId(expenses) <= MaxId
    /\ expenses' = Insert(expenses, [date |-> date, category |-> category, amount |-> amt])
    /\ out' = Printed("add_expense", "EXPENSES", "", <<view_total_expenses'>>)
    /\ UNCHANGED <<income, category_budget, financial_goals, status>>

\* Mutant of update_expense_amount: the UPDATE has no WHERE clause.
update_expense_amount_AllRows(id, amt) ==
    IF id \notin DOMAIN expenses
    THEN InvalidId("update_expense_amount")
    ELSE /\ expenses' = [i \in DOMAIN expenses |-> [expenses[i] EXCEPT !.amount = amt]]
         /\ out' = Printed("update_expense_amount", "EXPENSES", "", <<view_total_expenses'>>)
         /\ UNCHANGED <<income, category_budget, financial_goals, status>>

update_expense_amount(id, amt) ==
    IF id \notin DOMAIN expenses
    THEN InvalidId("update_expense_amount")
    ELSE /\ expenses' = [expenses EXCEPT ![id].amount = amt]
         /\ out' = Printed("update_expense_amount", "EXPENSES", "", <<view_total_expenses'>>)
         /\ UNCHANGED <<income, category_budget, financial_goals, status>>

remove_expense(id) ==
    IF id \notin DOMAIN expenses
    THEN InvalidId("remove_expense")
    ELSE /\ expenses' = Delete(expenses, id)
         /\ out' = Printed("remove_expense", "EXPENSES", "", <<view_total_expenses'>>)
         /\ UNCHANGED <<income, category_budget, financial_goals, status>>

----------------------------------------------------------------------------
(* Income. *)

view_income ==
    /\ out' = Printed("view_income", "INCOME", "", <<view_total_income>>)
    /\ UNCHANGED <<db, status>>

view_income_by_category(category) ==
    /\ out' = [op |-> "view_income_by_category", msg |-> "item/s for",
               category |-> category,
               val |-> <<Cardinality({i \in DOMAIN income : income[i].category = category}),
                         income_category_total(category)>>,
               pct |-> NULL,
               rows |-> SelectByCategory(income, category)]
    /\ UNCHANGED <<db, status>>

add_income(date, category, amt) ==
    /\ NewId(income) <= MaxId
    /\ income' = Insert(income, [date |-> date, category |-> category, amount |-> amt])
    /\ out' = Printed("add_income", "INCOME", "", <<view_total_income'>>)
    /\ UNCHANGED <<expenses, category_budget, financial_goals, status>>

\* The id is looked up in income; the UPDATE statement names the expenses
\* table, and changes the expense row of that id if there is one.
update_income_amount(id, amt) ==
    IF id \notin DOMAIN income
    THEN InvalidId("update_income_amount")
    ELSE /\ expenses' = [i \in DOMAIN expenses |->
                            IF i = id THEN [expenses[i] EXCEPT !.amount = amt]
                            ELSE expenses[i]]
         /\ UNCHANGED <<income, category_budget, financial_goals, status>>
         /\ out' = Printed("update_income_amount", "INCOME", "", <<view_total_income'>>)

\* Takes no parameter and reads the module-level ID.  No statement of the
\* program calls it.
remove_income ==
    IF ID = NULL
    THEN Crash("remove_income", "NameError")
    ELSE IF Value(ID) \notin DOMAIN income
    THEN InvalidId("remove_income")
    ELSE /\ income' = Delete(income, Value(ID))
         /\ out' = Printed("remove_income", "INCOME", "", <<view_total_income'>>)
         /\ UNCHANGED <<expenses, category_budget, financial_goals, status>>

----------------------------------------------------------------------------
(* Category budgets. *)

set_budget_for_category(date, category, amt) ==
    /\ NewId(category_budget) <= MaxId
    /\ category_budget' =
           Insert(category_budget, [date |-> date, category |-> category, amount |-> amt])
    /\ out' = Printed("set_budget_for_category", "budget has been set to", category, <<amt>>)
    /\ UNCHANGED <<expenses, income, financial_goals, status>>

\* Mutant of view_budget_for_category: the overrun is flagged from 0 on.
view_budget_for_category_FlagAtZero(category) ==
    LET budget == get_budget_amount(category)
        category_expenses == expense_category_total(category)
        available_budget == budget - category_expenses
    IN  /\ out' = Printed("view_budget_for_category",
                          IF available_budget <= 0
                          THEN "You have exceeded your budget" ELSE "CATEGORY",
                          category,
                          <<budget, category_expenses, available_budget,
                            IF available_budget <= 0
                            THEN <<available_budget * (-1)>> ELSE NULL>>)
        /\ UNCHANGED <<db, status>>

\* Mutant of view_budget_for_category: a category with no budget record is
\* given one of 0 when it is viewed.
view_budget_for_category_Caching(category) ==
    LET budget == get_budget_amount(category)
        category_expenses == expense_category_total(category)
        available_budget == budget - category_expenses
    IN  /\ out' = Printed("view_budget_for_category",
                          IF available_budget < 0
                          THEN "You have exceeded your budget" ELSE "CATEGORY",
                          category,
                          <<budget, category_expenses, available_budget,
                            IF available_budget < 0
                            THEN <<available_budget * (-1)>> ELSE NULL>>)
        /\ category_budget' =
               IF \E i \in DOMAIN category_budget : category_budget[i].category = category
               THEN category_budget
               ELSE Insert(category_budget,
                           [date |-> 1, category |-> category, amount |-> 0])
        /\ UNCHANGED <<expenses, income, financial_goals, status>>

\* The last figure is the amount the warning line names, NULL when no
\* warning is printed.
view_budget_for_category(category) ==
    LET budget == get_budget_amount(category)
        category_expenses == expense_category_total(category)
        available_budget == budget - category_expenses
    IN  /\ out' = Printed("view_budget_for_category",
                          IF available_budget < 0
                          THEN "You have exceeded your budget" ELSE "CATEGORY",
                          category,
                          <<budget, category_expenses, available_budget,
                            IF available_budget < 0
                            THEN <<available_budget * (-1)>> ELSE NULL>>)
        /\ UNCHANGED <<db, status>>

----------------------------------------------------------------------------
(* Financial goals. *)

\* Mutant of set_financial_goals: the gate refuses only negative funds.
set_financial_goals_StrictGate(date, goal_amt, allotted, req_amount, progress) ==
    LET available_funds == get_available_funds
        new_available_funds == available_funds - allotted
    IN  IF available_funds < 0
        THEN /\ out' = Printed("set_financial_goals",
                               "Not enough funds to allocate towards goal.", "", <<>>)
             /\ UNCHANGED <<db, status>>
        ELSE IF goal_amt = 0
        THEN Crash("set_financial_goals", "ZeroDivisionError")
        ELSE /\ NewId(financial_goals) <= MaxId
             /\ financial_goals' =
                    Insert(financial_goals,
                           [date |-> date,
                            financial_goal_amt |-> goal_amt,
                            allotted_amount |-> allotted,
                            req_amount |-> goal_amt - allotted,
                            progress |-> Percent(allotted, goal_amt)])
             /\ out' = Printed("set_financial_goals", "Available funds", "",
                               <<new_available_funds>>)
             /\ UNCHANGED <<expenses, income, category_budget, status>>

\* Mutant of set_financial_goals: the gate also refuses an allotment the
\* funds do not cover.
set_financial_goals_CoverGate(date, goal_amt, allotted, req_amount, progress) ==
    LET available_funds == get_available_funds
        new_available_funds == available_funds - allotted
    IN  IF available_funds <= 0 \/ new_available_funds < 0
        THEN /\ out' = Printed("set_financial_goals",
                               "Not enough funds to allocate towards goal.", "", <<>>)
             /\ UNCHANGED <<db, status>>
        ELSE IF goal_amt = 0
        THEN Crash("set_financial_goals", "ZeroDivisionError")
        ELSE /\ NewId(financial_goals) <= MaxId
             /\ financial_goals' =
                    Insert(financial_goals,
                           [date |-> date,
                            financial_goal_amt |-> goal_amt,
                            allotted_amount |-> allotted,
                            req_amount |-> goal_amt - allotted,
                            progress |-> Percent(allotted, goal_amt)])
             /\ out' = Printed("set_financial_goals", "Available funds", "",
                               <<new_available_funds>>)
             /\ UNCHANGED <<expenses, income, category_budget, status>>

\* The caller's req_amount and progress are overwritten before they are read.
set_financial_goals(date, goal_amt, allotted, req_amount, progress) ==
    LET available_funds == get_available_funds
        new_available_funds == available_funds - allotted
    IN  IF available_funds <= 0
        THEN /\ out' = Printed("set_financial_goals",
                               "Not enough funds to allocate towards goal.", "", <<>>)
             /\ UNCHANGED <<db, status>>
        ELSE IF goal_amt = 0
        THEN Crash("set_financial_goals", "ZeroDivisionError")
        ELSE /\ NewId(financial_goals) <= MaxId
             /\ financial_goals' =
                    Insert(financial_goals,
                           [date |-> date,
                            financial_goal_amt |-> goal_amt,
                            allotted_amount |-> allotted,
                            req_amount |-> goal_amt - allotted,
                            progress |-> Percent(allotted, goal_amt)])
             /\ out' = Printed("set_financial_goals", "Available funds", "",
                               <<new_available_funds>>)
             /\ UNCHANGED <<expenses, income, category_budget, status>>

view_financial_goals ==
    /\ out' = Printed("view_financial_goals", "FINANCIAL GOALS", "", <<>>)
    /\ UNCHANGED <<db, status>>

\* Mutant of update_allotted_amt: req_amount is left as it was.
update_allotted_amt_StaleReq(allotted, id) ==
    IF id \notin DOMAIN financial_goals
    THEN InvalidId("update_allotted_amt")
    ELSE LET goal_amount == financial_goals[id].financial_goal_amt
         IN  IF goal_amount = 0
             THEN Crash("update_allotted_amt", "ZeroDivisionError")
             ELSE /\ financial_goals' =
                         [financial_goals EXCEPT
                             ![id].allotted_amount = allotted,
                             ![id].progress = RoundedPercent(allotted, goal_amount)]
                  /\ out' = Printed("update_allotted_amt", "Allotted amount updated!", "", <<>>)
                  /\ UNCHANGED <<expenses, income, category_budget, status>>

\* Mutant of update_allotted_amt: progress is left as it was.
update_allotted_amt_StaleProgress(allotted, id) ==
    IF id \notin DOMAIN financial_goals
    THEN InvalidId("update_allotted_amt")
    ELSE LET goal_amount == financial_goals[id].financial_goal_amt
         IN  IF goal_amount = 0
             THEN Crash("update_allotted_amt", "ZeroDivisionError")
             ELSE /\ financial_goals' =
                         [financial_goals EXCEPT
                             ![id].allotted_amount = allotted,
                             ![id].req_amount = goal_amount - allotted]
                  /\ out' = Printed("update_allotted_amt", "Allotted amount updated!", "", <<>>)
                  /\ UNCHANGED <<expenses, income, category_budget, status>>

\* Mutant of update_allotted_amt: a goal whose allotment reaches the goal
\* amount is closed (deleted).
update_allotted_amt_AutoClose(allotted, id) ==
    IF id \notin DOMAIN financial_goals
    THEN InvalidId("update_allotted_amt")
    ELSE LET goal_amount == financial_goals[id].financial_goal_amt
         IN  IF goal_amount = 0
             THEN Crash("update_allotted_amt", "ZeroDivisionError")
             ELSE /\ financial_goals' =
                         IF allotted >= goal_amount
                         THEN Delete(financial_goals, id)
                         ELSE [financial_goals EXCEPT
                                  ![id].allotted_amount = allotted,
                                  ![id].req_amount = goal_amount - allotted,
                                  ![id].progress = RoundedPercent(allotted, goal_amount)]
                  /\ out' = Printed("update_allotted_amt", "Allotted amount updated!", "", <<>>)
                  /\ UNCHANGED <<expenses, income, category_budget, status>>

\* Mutant of update_allotted_amt: an allotment the available funds do not
\* cover is refused, as at creation.
update_allotted_amt_Gated(allotted, id) ==
    IF id \notin DOMAIN financial_goals
    THEN InvalidId("update_allotted_amt")
    ELSE LET goal_amount == financial_goals[id].financial_goal_amt
         IN  IF goal_amount = 0
             THEN Crash("update_allotted_amt", "ZeroDivisionError")
             ELSE IF get_available_funds + financial_goals[id].allotted_amount - allotted < 0
             THEN /\ out' = Printed("update_allotted_amt",
                                    "Not enough funds to allocate towards goal.", "", <<>>)
                  /\ UNCHANGED <<db, status>>
             ELSE /\ financial_goals' =
                         [financial_goals EXCEPT
                             ![id].allotted_amount = allotted,
                             ![id].req_amount = goal_amount - allotted,
                             ![id].progress = RoundedPercent(allotted, goal_amount)]
                  /\ out' = Printed("update_allotted_amt", "Allotted amount updated!", "", <<>>)
                  /\ UNCHANGED <<expenses, income, category_budget, status>>

update_allotted_amt(allotted, id) ==
    IF id \notin DOMAIN financial_goals
    THEN InvalidId("update_allotted_amt")
    ELSE LET goal_amount == financial_goals[id].financial_goal_amt
         IN  IF goal_amount = 0
             THEN Crash("update_allotted_amt", "ZeroDivisionError")
             ELSE /\ financial_goals' =
                         [financial_goals EXCEPT
                             ![id].allotted_amount = allotted,
                             ![id].req_amount = goal_amount - allotted,
                             ![id].progress = RoundedPercent(allotted, goal_amount)]
                  /\ out' = Printed("update_allotted_amt", "Allotted amount updated!", "", <<>>)
                  /\ UNCHANGED <<expenses, income, category_budget, status>>

\* Mutant of update_financial_goal_amt: no lookup of the id first, so the
\* unpacking of the missing row raises.
update_financial_goal_amt_NoLookup(goal_amt, id) ==
    IF id \notin DOMAIN financial_goals
    THEN Crash("update_financial_goal_amt", "TypeError")
    ELSE LET allotted == financial_goals[id].allotted_amount
         IN  IF goal_amt = 0
             THEN Crash("update_financial_goal_amt", "ZeroDivisionError")
             ELSE /\ financial_goals' =
                         [financial_goals EXCEPT
                             ![id].financial_goal_amt = goal_amt,
                             ![id].req_amount = goal_amt - allotted,
                             ![id].progress = RoundedPercent(allotted, goal_amt)]
                  /\ out' = Printed("update_financial_goal_amt",
                                    "Financial goal amount updated!", "", <<>>)
                  /\ UNCHANGED <<expenses, income, category_budget, status>>

\* Mutant of update_financial_goal_amt: the goal amount is written and
\* committed before the progress is computed.
update_financial_goal_amt_WriteFirst(goal_amt, id) ==
    IF id \notin DOMAIN financial_goals
    THEN InvalidId("update_financial_goal_amt")
    ELSE LET allotted == financial_goals[id].allotted_amount
         IN  IF goal_amt = 0
             THEN /\ financial_goals' =
                         [financial_goals EXCEPT ![id].financial_goal_amt = goal_amt]
                  /\ status' = "crashed"
                  /\ out' = Printed("update_financial_goal_amt", "ZeroDivisionError",
                                    "", <<>>)
                  /\ UNCHANGED <<expenses, income, category_budget>>
             ELSE /\ financial_goals' =
                         [financial_goals EXCEPT
                             ![id].financial_goal_amt = goal_amt,
                             ![id].req_amount = goal_amt - allotted,
                             ![id].progress = RoundedPercent(allotted, goal_amt)]
                  /\ out' = Printed("update_financial_goal_amt",
                                    "Financial goal amount updated!", "", <<>>)
                  /\ UNCHANGED <<expenses, income, category_budget, status>>

update_financial_goal_amt(goal_amt, id) ==
    IF id \notin DOMAIN financial_goals
    THEN InvalidId("update_financial_goal_amt")
    ELSE LET allotted == financial_goals[id].allotted_amount
         IN  IF goal_amt = 0
             THEN Crash("update_financial_goal_amt", "ZeroDivisionError")
             ELSE /\ financial_goals' =
                         [financial_goals EXCEPT
                             ![id].financial_goal_amt = goal_amt,
                             ![id].req_amount = goal_amt - allotted,
                             ![id].progress = RoundedPercent(allotted, goal_amt)]
                  /\ out' = Printed("update_financial_goal_amt",
                                    "Financial goal amount updated!", "", <<>>)
                  /\ UNCHANGED <<expenses, income, category_budget, status>>

remove_financial_goal(id) ==
    IF id \notin DOMAIN financial_goals
    THEN InvalidId("remove_financial_goal")
    ELSE /\ financial_goals' = Delete(financial_goals, id)
         /\ out' = Printed("remove_financial_goal", "Financial goal removed!", "", <<>>)
         /\ UNCHANGED <<expenses, income, category_budget, status>>

\* Mutant of return_financial_goals_percentage: a goals total of 0 gives 0
\* percent.
return_financial_goals_percentage_ZeroAsZero ==
    LET goals_total == return_financial_goals_total
        allotted_total == return_allotted_amount_total
    IN  IF goals_total = 0 THEN <<Ratio(0, 1)>>
        ELSE <<RoundedPercent(allotted_total, goals_total)>>

\* None when the goals total is 0 (the ZeroDivisionError is caught).
return_financial_goals_percentage ==
    LET goals_total == return_financial_goals_total
        allotted_total == return_allotted_amount_total
    IN  IF goals_total = 0 THEN NULL
        ELSE <<RoundedPercent(allotted_total, goals_total)>>

view_financial_progress ==
    LET progress_percent == return_financial_goals_percentage
    IN  /\ out' = [Printed("view_financial_progress", "FINANCIAL GOALS PROGRESS", "", <<>>)
                      EXCEPT !.pct = progress_percent]
        /\ UNCHANGED <<db, status>>

----------------------------------------------------------------------------
(* Program start: connect to the database file and create the tables that  *)
(* do not exist.  A first run starts on an empty database; a later run     *)
(* (after a crash or a quit) finds the rows the earlier runs committed.    *)

Init ==
    /\ expenses = <<>>
    /\ income = <<>>
    /\ category_budget = <<>>
    /\ financial_goals = <<>>
    /\ status = "running"
    /\ out = Printed("start", "", "", <<>>)
    /\ amount = NULL
    /\ ID = NULL
    /\ financial_goal_amt = NULL
    /\ allotted_amount = NULL
    /\ notice = ""
    /\ txn = NULL

Start ==
    /\ status # "running"
    /\ status' = "running"
    /\ out' = Printed("start", "", "", <<>>)
    /\ amount' = NULL
    /\ ID' = NULL
    /\ financial_goal_amt' = NULL
    /\ allotted_amount' = NULL
    /\ notice' = ""
    /\ UNCHANGED <<db, txn>>

----------------------------------------------------------------------------
(* The operations called with well-formed arguments: what the menu does    *)
(* when every input parses, leaving out the names the menu loop keeps.     *)

Call_view_expenses == status = "running" /\ view_expenses /\ UNCHANGED <<session, txn>>

Call_view_expenses_by_category(category) ==
    status = "running" /\ view_expenses_by_category(category) /\ UNCHANGED <<session, txn>>

Call_view_income_by_category(category) ==
    status = "running" /\ view_income_by_category(category) /\ UNCHANGED <<session, txn>>

Call_view_financial_goals ==
    status = "running" /\ view_financial_goals /\ UNCHANGED <<session, txn>>

Call_add_expense(date, category, amt) ==
    status = "running" /\ add_expense(date, category, amt) /\ UNCHANGED <<session, txn>>

Call_update_expense_amount(id, amt) ==
    status = "running" /\ update_expense_amount(id, amt) /\ UNCHANGED <<session, txn>>

Call_remove_expense(id) ==
    status = "running" /\ remove_expense(id) /\ UNCHANGED <<session, txn>>

Call_view_income == status = "running" /\ view_income /\ UNCHANGED <<session, txn>>

Call_add_income(date, category, amt) ==
    status = "running" /\ add_income(date, category, amt) /\ UNCHANGED <<session, txn>>

Call_update_income_amount(id, amt) ==
    status = "running" /\ update_income_amount(id, amt) /\ UNCHANGED <<session, txn>>

Call_set_budget_for_category(date, category, amt) ==
    status = "running" /\ set_budget_for_category(date, category, amt) /\ UNCHANGED <<session, txn>>

Call_view_budget_for_category(category) ==
    status = "running" /\ view_budget_for_category(category) /\ UNCHANGED <<session, txn>>

\* req_amount and progress as the menu computes them before the call.
Call_set_financial_goals(date, goal_amt, allotted) ==
    /\ status = "running"
    /\ set_financial_goals(date, goal_amt, allotted, goal_amt - allotted,
                           IF goal_amt = 0 THEN NULL
                           ELSE <<RoundedPercent(allotted, goal_amt)>>)
    /\ UNCHANGED <<session, txn>>

Call_update_allotted_amt(allotted, id) ==
    status = "running" /\ update_allotted_amt(allotted, id) /\ UNCHANGED <<session, txn>>

Call_update_financial_goal_amt(goal_amt, id) ==
    status = "running" /\ update_financial_goal_amt(goal_amt, id) /\ UNCHANGED <<session, txn>>

Call_remove_financial_goal(id) ==
    status = "running" /\ remove_financial_goal(id) /\ UNCHANGED <<session, txn>>

Call_view_financial_progress ==
    status = "running" /\ view_financial_progress /\ UNCHANGED <<session, txn>>

----------------------------------------------------------------------------
(* Input lines and their conversion.  A line is a sequence of characters.  *)
(* int() accepts an optional sign and digits; float() accepts that and a   *)
(* trailing ".0" (amounts are whole in this model).  Any other line raises *)
(* ValueError, shown here as NULL.                                         *)

DigitValue(c) ==
    CASE c = "0" -> 0 [] c = "1" -> 1 [] c = "2" -> 2 [] c = "3" -> 3 [] c = "4" -> 4
      [] c = "5" -> 5 [] c = "6" -> 6 [] c = "7" -> 7 [] c = "8" -> 8 [] c = "9" -> 9

IsDigit(c) == c \in {"0", "1", "2", "3", "4", "5", "6", "7", "8", "9"}

RECURSIVE DigitsValue(_)
DigitsValue(t) ==
    IF t = <<>> THEN 0
    ELSE 10 * DigitsValue(SubSeq(t, 1, Len(t) - 1)) + DigitValue(t[Len(t)])

ParseInt(line) ==
    LET negative == Len(line) > 0 /\ line[1] = "-"
        digits == IF negative THEN Tail(line) ELSE line
    IN  IF Len(digits) > 0 /\ \A i \in DOMAIN digits : IsDigit(digits[i])
        THEN <<(IF negative THEN -1 ELSE 1) * DigitsValue(digits)>>
        ELSE NULL

ParseFloat(line) ==
    IF Len(line) >= 2 /\ SubSeq(line, Len(line) - 1, Len(line)) = <<".", "0">>
    THEN ParseInt(SubSeq(line, 1, Len(line) - 2))
    ELSE ParseInt(line)

\* Mutant of SelectFrom: a number out of range is taken as a category of
\* its own instead of being asked again.
RECURSIVE SelectFrom_Unchecked(_, _)
SelectFrom_Unchecked(categories, lines) ==
    IF lines = <<>> THEN NULL
    ELSE LET selected_index == ParseInt(Head(lines))
         IN  IF selected_index = NULL
             THEN SelectFrom_Unchecked(categories, Tail(lines))
             ELSE IF Value(selected_index) - 1 \in 0..(Len(categories) - 1)
             THEN <<categories[Value(selected_index)]>>
             ELSE <<"Uncategorised">>

\* The category loop: asks again after a line that is no integer or is out
\* of range, and returns the category of the first line that is in range
\* (NULL: still asking when the lines run out).
RECURSIVE SelectFrom(_, _)
SelectFrom(categories, lines) ==
    IF lines = <<>> THEN NULL
    ELSE LET selected_index == ParseInt(Head(lines))
         IN  IF selected_index # NULL /\ Value(selected_index) - 1 \in 0..(Len(categories) - 1)
             THEN <<categories[Value(selected_index)]>>
             ELSE SelectFrom(categories, Tail(lines))

select_category(lines) == SelectFrom(expense_categories, lines)

select_income_category(lines) == SelectFrom(income_categories, lines)

\* An empty date line stands for today's date.
DateOrToday(line, today) == IF line = <<>> THEN today ELSE Value(ParseInt(line))

----------------------------------------------------------------------------
(* The menu handlers.  The names amount, ID, financial_goal_amt and        *)
(* allotted_amount are module-level: a line that does not parse leaves the *)
(* name as an earlier handler bound it, or unbound, and the call after the *)
(* try block reads it.  Reading an unbound name raises NameError.  The     *)
(* names end with the process.                                             *)

Names(amt, id, goal_amt, allotted, printed) ==
    /\ amount' = IF status' = "running" THEN amt ELSE NULL
    /\ ID' = IF status' = "running" THEN id ELSE NULL
    /\ financial_goal_amt' = IF status' = "running" THEN goal_amt ELSE NULL
    /\ allotted_amount' = IF status' = "running" THEN allotted ELSE NULL
    /\ notice' = printed
    /\ UNCHANGED txn

OrElse(parsed, bound) == IF parsed = NULL THEN bound ELSE parsed

TryOne(parsed) == IF parsed = NULL THEN "Invalid input. Please try a number!" ELSE ""

expense_menu_1(category_lines, date_line, today, amount_line) ==
    LET category == select_category(category_lines)
        amt == OrElse(ParseFloat(amount_line), amount)
    IN  /\ status = "running"
        /\ category # NULL
        /\ IF amt = NULL
           THEN Crash("expense_menu_1", "NameError")
           ELSE add_expense(DateOrToday(date_line, today), Value(category), Value(amt))
        /\ Names(amt, ID, financial_goal_amt, allotted_amount, TryOne(ParseFloat(amount_line)))

expense_menu_2(id_line, amount_line) ==
    LET id == OrElse(ParseInt(id_line), ID)
        amt == IF ParseInt(id_line) = NULL THEN amount
               ELSE OrElse(ParseFloat(amount_line), amount)
        failed == ParseInt(id_line) = NULL \/ ParseFloat(amount_line) = NULL
    IN  /\ status = "running"
        /\ IF id = NULL \/ amt = NULL
           THEN Crash("expense_menu_2", "NameError")
           ELSE update_expense_amount(Value(id), Value(amt))
        /\ Names(amt, id, financial_goal_amt, allotted_amount,
                 IF failed THEN "Invalid input. Please try a number!" ELSE "")

expense_menu_3(id_line) ==
    LET id == ParseInt(id_line)
    IN  /\ status = "running"
        /\ IF id = NULL
           THEN /\ out' = Printed("view_expenses", "EXPENSES", "", <<view_total_expenses>>)
                /\ UNCHANGED <<db, status>>
           ELSE remove_expense(Value(id))
        /\ Names(amount, OrElse(id, ID), financial_goal_amt, allotted_amount,
                 IF id = NULL THEN "Invalid input!" ELSE "")

menu_2 == status = "running" /\ view_expenses /\ UNCHANGED <<amount, ID, financial_goal_amt, allotted_amount, txn>> /\ notice' = ""

income_menu_1(category_lines, date_line, today, amount_line) ==
    LET category == select_income_category(category_lines)
        amt == OrElse(ParseFloat(amount_line), amount)
    IN  /\ status = "running"
        /\ category # NULL
        /\ IF amt = NULL
           THEN Crash("income_menu_1", "NameError")
           ELSE add_income(DateOrToday(date_line, today), Value(category), Value(amt))
        /\ Names(amt, ID, financial_goal_amt, allotted_amount, TryOne(ParseFloat(amount_line)))

\* Shows the expenses, then asks for the id of the income item.
income_menu_2(id_line, amount_line) ==
    LET id == OrElse(ParseInt(id_line), ID)
        amt == IF ParseInt(id_line) = NULL THEN amount
               ELSE OrElse(ParseFloat(amount_line), amount)
        failed == ParseInt(id_line) = NULL \/ ParseFloat(amount_line) = NULL
    IN  /\ status = "running"
        /\ IF id = NULL \/ amt = NULL
           THEN Crash("income_menu_2", "NameError")
           ELSE update_income_amount(Value(id), Value(amt))
        /\ Names(amt, id, financial_goal_amt, allotted_amount,
                 IF failed THEN "Invalid input. Please try a number!" ELSE "")

\* "Delete income": shows the income, asks for an id and calls remove_expense.
income_menu_3(id_line) ==
    LET id == ParseInt(id_line)
    IN  /\ status = "running"
        /\ IF id = NULL
           THEN /\ out' = Printed("view_income", "INCOME", "", <<view_total_income>>)
                /\ UNCHANGED <<db, status>>
           ELSE remove_expense(Value(id))
        /\ Names(amount, OrElse(id, ID), financial_goal_amt, allotted_amount,
                 IF id = NULL THEN "Invalid input!" ELSE "")

menu_5 == status = "running" /\ view_income /\ UNCHANGED <<amount, ID, financial_goal_amt, allotted_amount, txn>> /\ notice' = ""

menu_7(category_lines, date_line, today, amount_line) ==
    LET category == select_category(category_lines)
        amt == OrElse(ParseFloat(amount_line), amount)
    IN  /\ status = "running"
        /\ category # NULL
        /\ IF amt = NULL
           THEN Crash("menu_7", "NameError")
           ELSE set_budget_for_category(DateOrToday(date_line, today), Value(category),
                                        Value(amt))
        /\ Names(amt, ID, financial_goal_amt, allotted_amount, TryOne(ParseFloat(amount_line)))

menu_8(category_lines) ==
    LET category == select_category(category_lines)
    IN  /\ status = "running"
        /\ category # NULL
        /\ view_budget_for_category(Value(category))
        /\ UNCHANGED <<amount, ID, financial_goal_amt, allotted_amount, txn>>
        /\ notice' = ""

\* The try block converts both amounts and computes req_amount and progress;
\* only ValueError is caught, and its handler calls set_financial_goals()
\* without arguments, a TypeError.
financial_goal_menu_1(date_line, today, goal_line, allotted_line) ==
    LET goal_amt == ParseFloat(goal_line)
        allotted == ParseFloat(allotted_line)
    IN  /\ status = "running"
        /\ IF goal_amt = NULL \/ allotted = NULL
           THEN Crash("financial_goal_menu_1", "TypeError")
           ELSE IF Value(goal_amt) = 0
           THEN Crash("financial_goal_menu_1", "ZeroDivisionError")
           ELSE set_financial_goals(DateOrToday(date_line, today), Value(goal_amt),
                                    Value(allotted), Value(goal_amt) - Value(allotted),
                                    <<RoundedPercent(Value(allotted), Value(goal_amt))>>)
        /\ Names(amount, ID, goal_amt, allotted,
                 IF goal_amt = NULL \/ allotted = NULL
                 THEN "Invalid input. Please try a number!" ELSE "")

financial_goal_menu_2 ==
    status = "running" /\ view_financial_goals /\ UNCHANGED <<amount, ID, financial_goal_amt, allotted_amount, txn>> /\ notice' = ""

financial_goal_menu_3(id_line, goal_line) ==
    LET id == OrElse(ParseInt(id_line), ID)
        goal_amt == IF ParseInt(id_line) = NULL THEN financial_goal_amt
                    ELSE OrElse(ParseFloat(goal_line), financial_goal_amt)
        failed == ParseInt(id_line) = NULL \/ ParseFloat(goal_line) = NULL
    IN  /\ status = "running"
        /\ IF id = NULL \/ goal_amt = NULL
           THEN Crash("financial_goal_menu_3", "NameError")
           ELSE update_financial_goal_amt(Value(goal_amt), Value(id))
        /\ Names(amount, id, goal_amt, allotted_amount,
                 IF failed THEN "Invalid input. Please try a number!" ELSE "")

financial_goal_menu_4(id_line, allotted_line) ==
    LET id == OrElse(ParseInt(id_line), ID)
        allotted == IF ParseInt(id_line) = NULL THEN allotted_amount
                    ELSE OrElse(ParseFloat(allotted_line), allotted_amount)
        failed == ParseInt(id_line) = NULL \/ ParseFloat(allotted_line) = NULL
    IN  /\ status = "running"
        /\ IF id = NULL \/ allotted = NULL
           THEN Crash("financial_goal_menu_4", "NameError")
           ELSE update_allotted_amt(Value(allotted), Value(id))
        /\ Names(amount, id, financial_goal_amt, allotted,
                 IF failed THEN "Invalid input. Please try a number!" ELSE "")

financial_goal_menu_5(id_line) ==
    LET id == OrElse(ParseInt(id_line), ID)
    IN  /\ status = "running"
        /\ IF id = NULL
           THEN Crash("financial_goal_menu_5", "NameError")
           ELSE remove_financial_goal(Value(id))
        /\ Names(amount, id, financial_goal_amt, allotted_amount, TryOne(ParseInt(id_line)))

menu_10 ==
    status = "running" /\ view_financial_progress /\ UNCHANGED <<amount, ID, financial_goal_amt, allotted_amount, txn>> /\ notice' = ""

menu_11 ==
    /\ status = "running"
    /\ status' = "stopped"
    /\ out' = Printed("menu_11", "Good-bye!", "", <<>>)
    /\ UNCHANGED db
    /\ Names(NULL, NULL, NULL, NULL, "")

----------------------------------------------------------------------------
(* Inputs. *)

Ids == 1..MaxId

\* Dates as day numbers.
Dates == {1, 2}

ExpenseCats == {"Household", "Insurance"}

IncomeCats == {"Salary", "Interest"}

ExpenseAmts == {500, 650}

IncomeAmts == {1000}

BudgetAmts == {200, 50}

GoalAmts == {0, 3, 1000}

AllotAmts == {1, 250, 500}

\* Lines typed at the prompts: "3" is Household; "14", "x", "6" is two
\* refused category choices and then Insurance; "0", "4" is Interest.
HouseholdLines == << <<"3">> >>

InsuranceLines == << <<"1", "4">>, <<"x">>, <<"6">> >>

SalaryLines == << <<"1">> >>

InterestLines == << <<"0">>, <<"4">> >>

IdLines == {<<"1">>, <<"2">>, <<"x">>}

AmountLines == {<<"5", "0", "0">>, <<"x">>}

NewAmountLines == {<<"6", "5", "0", ".", "0">>, <<"x">>}

BudgetLines == {<<"2", "0", "0">>, <<"x">>}

GoalLines == {<<"0">>, <<"1", "0", "0", "0">>, <<>>}

AllottedLines == {<<"2", "5", "0">>, <<"5", "0", "0">>, <<"x">>}

DateLines == {<<>>, <<"1">>}

----------------------------------------------------------------------------
(* Goals funded from income: the goal tracker and the funds calculator. *)

NextGoals ==
    \/ \E amt \in IncomeAmts : Call_add_income(1, "Salary", amt)
    \/ \E g \in GoalAmts, a \in AllotAmts : Call_set_financial_goals(1, g, a)
    \/ \E a \in AllotAmts, id \in Ids : Call_update_allotted_amt(a, id)
    \/ \E g \in GoalAmts, id \in Ids : Call_update_financial_goal_amt(g, id)
    \/ \E id \in Ids : Call_remove_financial_goal(id)
    \/ Call_view_financial_progress
    \/ Start

SpecGoals == Init /\ [][NextGoals]_vars

----------------------------------------------------------------------------
(* The whole store: ledger, budgets and goals together, every operation   *)
(* on one category and a few amounts.                                      *)

Next ==
    \/ Call_add_expense(1, "Household", 500)
    \/ \E id \in Ids : Call_update_expense_amount(id, 650)
    \/ \E id \in Ids : Call_remove_expense(id)
    \/ Call_view_expenses
    \/ Call_add_income(1, "Salary", 1000)
    \/ \E id \in Ids : Call_update_income_amount(id, 650)
    \/ Call_view_income
    \/ Call_set_budget_for_category(1, "Insurance", 200)
    \/ \E c \in ExpenseCats : Call_view_budget_for_category(c)
    \/ \E g \in {0, 1000} : Call_set_financial_goals(1, g, 250)
    \/ \E id \in Ids : Call_update_allotted_amt(500, id)
    \/ \E g \in {0, 1000}, id \in Ids : Call_update_financial_goal_amt(g, id)
    \/ \E id \in Ids : Call_remove_financial_goal(id)
    \/ Call_view_financial_progress
    \/ Start

Spec == Init /\ [][Next]_vars

----------------------------------------------------------------------------
(* The ledger: expenses and income. *)

NextLedger ==
    \/ \E c \in ExpenseCats, amt \in ExpenseAmts : Call_add_expense(1, c, amt)
    \/ \E id \in Ids, amt \in ExpenseAmts : Call_update_expense_amount(id, amt)
    \/ \E id \in Ids : Call_remove_expense(id)
    \/ Call_view_expenses
    \/ \E amt \in IncomeAmts : Call_add_income(1, "Salary", amt)
    \/ \E id \in Ids, amt \in ExpenseAmts : Call_update_income_amount(id, amt)
    \/ Call_view_income

SpecLedger == Init /\ [][NextLedger]_vars

\* Budgets and the expenses they are compared with.
NextBudget ==
    \/ \E c \in ExpenseCats, amt \in BudgetAmts : Call_set_budget_for_category(1, c, amt)
    \/ \E c \in ExpenseCats : Call_view_budget_for_category(c)
    \/ \E c \in ExpenseCats : Call_add_expense(1, c, 500)
    \/ \E id \in Ids : Call_remove_expense(id)

SpecBudget == Init /\ [][NextBudget]_vars

----------------------------------------------------------------------------
(* Properties of the goal tracker. *)

\* p is n/d with at most two decimals and within half a hundredth of
\* 100 * a / g: the percentage a / g * 100 rounded to 2 decimals.
IsPercentTo2Decimals(p, a, g) ==
    /\ p.d > 0
    /\ 100 % p.d = 0
    /\ Gcd(Abs(p.n), p.d) = 1
    /\ 200 * Abs(p.n * g - 100 * a * p.d) <= Abs(p.d * g)

OtherGoalsUnchanged(id) ==
    /\ DOMAIN financial_goals' = DOMAIN financial_goals
    /\ \A j \in DOMAIN financial_goals : j # id => financial_goals'[j] = financial_goals[j]

\* C1: every stored goal has req_amount = financial_goal_amt - allotted_amount,
\* after any sequence of goal creations, amount updates and removals.
C1_RequiredAmountConsistent ==
    \A id \in DOMAIN financial_goals :
        /\ financial_goals[id].req_amount =
               financial_goals[id].financial_goal_amt - financial_goals[id].allotted_amount
        /\ financial_goals[id].req_amount + financial_goals[id].allotted_amount =
               financial_goals[id].financial_goal_amt

\* A goal whose allotment and goal amount were both changed since its
\* creation, next to another goal.
C1_Witness ==
    /\ out.op = "update_allotted_amt"
    /\ out.msg = "Allotted amount updated!"
    /\ Cardinality(DOMAIN financial_goals) = 2
    /\ \E id \in DOMAIN financial_goals :
          /\ financial_goals[id].financial_goal_amt = 3
          /\ financial_goals[id].allotted_amount = 500
          /\ financial_goals[id].req_amount = -497

\* C2: update_financial_goal_amt(g, id) on an existing goal with g # 0 stores
\* g, keeps allotted_amount, stores req_amount = g - allotted_amount and
\* progress = allotted_amount / g * 100 rounded to 2 decimals in that row,
\* and changes no other goal and no other table.
C2_UpdateGoalAmount ==
    [][\A g \in GoalAmts, id \in Ids :
          (/\ Call_update_financial_goal_amt(g, id)
           /\ id \in DOMAIN financial_goals
           /\ g # 0)
          => /\ OtherGoalsUnchanged(id)
             /\ financial_goals'[id].financial_goal_amt = g
             /\ financial_goals'[id].allotted_amount = financial_goals[id].allotted_amount
             /\ financial_goals'[id].date = financial_goals[id].date
             /\ financial_goals'[id].req_amount = g - financial_goals[id].allotted_amount
             /\ IsPercentTo2Decimals(financial_goals'[id].progress,
                                     financial_goals[id].allotted_amount, g)
             /\ UNCHANGED <<expenses, income, category_budget>>]_vars

\* The goal amount of one of two goals has been set to 3 with 500 allotted:
\* 16666.67 percent, rounded up from 16666.666...
C2_Witness ==
    /\ out.op = "update_financial_goal_amt"
    /\ out.msg = "Financial goal amount updated!"
    /\ Cardinality(DOMAIN financial_goals) = 2
    /\ \E id \in DOMAIN financial_goals :
          /\ financial_goals[id].financial_goal_amt = 3
          /\ financial_goals[id].allotted_amount = 500
          /\ financial_goals[id].progress = [n |-> 1666667, d |-> 100]

\* C3: update_allotted_amt(a, id) on an existing goal stores a, keeps
\* financial_goal_amt, and stores req_amount = financial_goal_amt - a and
\* progress = a / financial_goal_amt * 100 rounded to 2 decimals, against the
\* goal amount stored at the call; goal 1000 / allotted 250 updated to 500
\* gives required 500, progress 50.
C3_UpdateAllottedAmount ==
    [][\A a \in AllotAmts, id \in Ids :
          (/\ Call_update_allotted_amt(a, id)
           /\ id \in DOMAIN financial_goals)
          => /\ OtherGoalsUnchanged(id)
             /\ status' = "running"
             /\ financial_goals'[id].allotted_amount = a
             /\ financial_goals'[id].financial_goal_amt =
                    financial_goals[id].financial_goal_amt
             /\ financial_goals'[id].date = financial_goals[id].date
             /\ financial_goals'[id].req_amount =
                    financial_goals[id].financial_goal_amt - a
             /\ IsPercentTo2Decimals(financial_goals'[id].progress, a,
                                     financial_goals[id].financial_goal_amt)
             /\ (/\ financial_goals[id].financial_goal_amt = 1000
                 /\ financial_goals[id].allotted_amount = 250
                 /\ a = 500)
                => /\ financial_goals'[id].req_amount = 500
                   /\ financial_goals'[id].progress = [n |-> 50, d |-> 1]
             /\ UNCHANGED <<expenses, income, category_budget>>]_vars

\* The allotment of a 1000 goal has just been set to 500.
C3_Witness ==
    /\ out.op = "update_allotted_amt"
    /\ out.msg = "Allotted amount updated!"
    /\ \E id \in DOMAIN financial_goals :
          /\ financial_goals[id].financial_goal_amt = 1000
          /\ financial_goals[id].allotted_amount = 500
          /\ financial_goals[id].req_amount = 500
          /\ financial_goals[id].progress = [n |-> 50, d |-> 1]

\* C4: set_financial_goals called when get_available_funds <= 0 creates no
\* goal, leaves every table unchanged and leaves the program running.
C4_CreationRefusedWithoutFunds ==
    [][\A d \in Dates, g \in GoalAmts, a \in AllotAmts :
          (Call_set_financial_goals(d, g, a) /\ get_available_funds <= 0)
          => /\ UNCHANGED db
             /\ status' = "running"
             /\ out'.msg = "Not enough funds to allocate towards goal."]_vars

\* A creation refused after earlier goals used up the income.
C4_Witness ==
    /\ out.op = "set_financial_goals"
    /\ out.msg = "Not enough funds to allocate towards goal."
    /\ status = "running"
    /\ income # <<>>
    /\ financial_goals # <<>>
    /\ get_available_funds = 0

----------------------------------------------------------------------------
(* Properties of the aggregates and the funds calculator. *)

AllottedOf(t) == [i \in DOMAIN t |-> t[i].allotted_amount]

\* C5: in every state get_available_funds is the sum of the stored income
\* amounts minus the sum of the stored expense amounts minus the sum of the
\* stored goals' allotted amounts; the figure printed by a goal creation is
\* the one the next call returns.
C5_AvailableFunds ==
    /\ get_available_funds =
           SumOver(AmountsOf(income), DOMAIN income)
           - SumOver(AmountsOf(expenses), DOMAIN expenses)
           - SumOver(AllottedOf(financial_goals), DOMAIN financial_goals)
    /\ (out.op = "set_financial_goals" /\ out.msg = "Available funds")
       => out.val = <<get_available_funds>>

\* Income, an expense and two goals are stored, an allotment was just
\* raised, and the funds are negative.
C5_Witness ==
    /\ out.op = "update_allotted_amt"
    /\ out.msg = "Allotted amount updated!"
    /\ income # <<>>
    /\ expenses # <<>>
    /\ Cardinality(DOMAIN financial_goals) = 2
    /\ get_available_funds < 0

\* C6: each of the seven aggregates is 0 when no stored row matches.
C6_EmptyAggregatesAreZero ==
    /\ DOMAIN expenses = {} => view_total_expenses = 0
    /\ \A c \in Range(expense_categories) :
          (\A i \in DOMAIN expenses : expenses[i].category # c)
          => expense_category_total(c) = 0
    /\ DOMAIN income = {} => view_total_income = 0
    /\ \A c \in Range(income_categories) :
          (\A i \in DOMAIN income : income[i].category # c)
          => income_category_total(c) = 0
    /\ \A c \in Range(expense_categories) :
          (\A i \in DOMAIN category_budget : category_budget[i].category # c)
          => get_budget_amount(c) = 0
    /\ DOMAIN financial_goals = {} => return_financial_goals_total = 0
    /\ DOMAIN financial_goals = {} => return_allotted_amount_total = 0

\* The last expense has just been deleted (the total printed is 0) while the
\* other tables hold rows.
C6_Witness ==
    /\ out.op = "remove_expense"
    /\ out.val = <<0>>
    /\ DOMAIN expenses = {}
    /\ income # <<>>
    /\ category_budget # <<>>

----------------------------------------------------------------------------
(* The program as the user drives it: the menu handlers on typed lines.   *)
(* The ledger menus.                                                       *)

NextMenu ==
    \/ \E a \in AmountLines : expense_menu_1(HouseholdLines, <<>>, 2, a)
    \/ \E i \in IdLines, a \in NewAmountLines : expense_menu_2(i, a)
    \/ \E i \in IdLines : expense_menu_3(i)
    \/ menu_2
    \/ \E a \in AmountLines : income_menu_1(InterestLines, <<"1">>, 2, a)
    \/ \E i \in IdLines, a \in NewAmountLines : income_menu_2(i, a)
    \/ \E i \in IdLines : income_menu_3(i)
    \/ menu_5
    \/ menu_11
    \/ Start

SpecMenu == Init /\ [][NextMenu]_vars

\* The goal menus, with one way to bring in funds.
NextGoalMenu ==
    \/ income_menu_1(SalaryLines, <<>>, 2, <<"1", "0", "0", "0">>)
    \/ \E d \in DateLines, g \in GoalLines, a \in AllottedLines :
          financial_goal_menu_1(d, 2, g, a)
    \/ financial_goal_menu_2
    \/ \E i \in IdLines, g \in GoalLines : financial_goal_menu_3(i, g)
    \/ \E i \in IdLines, a \in AllottedLines : financial_goal_menu_4(i, a)
    \/ \E i \in IdLines : financial_goal_menu_5(i)
    \/ menu_10
    \/ menu_11
    \/ Start

SpecGoalMenu == Init /\ [][NextGoalMenu]_vars

\* The budget menus, after an expense menu that may leave an amount behind.
NextBudgetMenu ==
    \/ \E a \in AmountLines : expense_menu_1(InsuranceLines, <<>>, 2, a)
    \/ \E d \in DateLines, a \in BudgetLines : menu_7(InsuranceLines, d, 2, a)
    \/ \E c \in {HouseholdLines, InsuranceLines} : menu_8(c)
    \/ menu_11
    \/ Start

SpecBudgetMenu == Init /\ [][NextBudgetMenu]_vars

----------------------------------------------------------------------------
(* Properties of the ledger and the budgets. *)

RowsOfCategory(t, category) == {i \in DOMAIN t : t[i].category = category}

ExpenseCategory == Range(expense_categories)

\* C7: expense_category_total(c) is the sum of the current amounts of the
\* stored expense rows of category c; add_expense raises it by the amount
\* added, update_expense_amount changes it by the change of that one row,
\* remove_expense lowers it by the amount of the row removed, and no other
\* category's total moves; the handler's own listing shows the new total.
C7_ExpenseCategoryTotal ==
    /\ [](\A c \in ExpenseCategory :
             expense_category_total(c) =
                 SumOver(AmountsOf(expenses), RowsOfCategory(expenses, c)))
    /\ [][\A c \in ExpenseCats, amt \in ExpenseAmts :
             Call_add_expense(1, c, amt)
             => /\ expense_category_total(c)' = expense_category_total(c) + amt
                /\ \A c2 \in ExpenseCategory \ {c} :
                      expense_category_total(c2)' = expense_category_total(c2)
                /\ out'.val = <<view_total_expenses + amt>>]_vars
    /\ [][\A id \in Ids, amt \in ExpenseAmts :
             (Call_update_expense_amount(id, amt) /\ id \in DOMAIN expenses)
             => /\ \A c \in ExpenseCategory :
                      expense_category_total(c)' =
                          IF c = expenses[id].category
                          THEN expense_category_total(c) - expenses[id].amount + amt
                          ELSE expense_category_total(c)
                /\ out'.val = <<view_total_expenses - expenses[id].amount + amt>>]_vars
    /\ [][\A id \in Ids :
             (Call_remove_expense(id) /\ id \in DOMAIN expenses)
             => /\ \A c \in ExpenseCategory :
                      expense_category_total(c)' =
                          IF c = expenses[id].category
                          THEN expense_category_total(c) - expenses[id].amount
                          ELSE expense_category_total(c)
                /\ out'.val = <<view_total_expenses - expenses[id].amount>>]_vars

\* The one Household expense has just been updated to 650 next to an
\* Insurance expense of 500.
C7_Witness ==
    /\ out.op = "update_expense_amount"
    /\ Cardinality(RowsOfCategory(expenses, "Household")) = 1
    /\ expense_category_total("Household") = 650
    /\ expense_category_total("Insurance") = 500

\* C8 (fails): update_income_amount on an id of the income table sets that
\* income row's amount, so that the income total follows, and changes no
\* expense row.
C8_IncomeUpdateChangesIncome ==
    [][\A id \in Ids, amt \in ExpenseAmts :
          (Call_update_income_amount(id, amt) /\ id \in DOMAIN income)
          => /\ income'[id].amount = amt
             /\ view_total_income' = view_total_income - income[id].amount + amt
             /\ expenses' = expenses]_vars

\* C9 (fails): the income menu's delete, given the id of an income row,
\* removes that row from income and nothing from expenses; given an id that
\* is not in income it reports the invalid id and deletes nothing.
C9_IncomeDeleteRemovesIncome ==
    [][\A line \in IdLines :
          (income_menu_3(line) /\ ParseInt(line) # NULL)
          => /\ expenses' = expenses
             /\ IF Value(ParseInt(line)) \in DOMAIN income
                THEN /\ income' = Delete(income, Value(ParseInt(line)))
                     /\ view_total_income' =
                            view_total_income - income[Value(ParseInt(line))].amount
                ELSE /\ income' = income
                     /\ out'.msg = "Invalid id entered."]_vars

\* C10: get_budget_amount(c), the budget view_budget_for_category shows, is
\* the sum of the amounts of all budget records of category c, 0 when there
\* is none; set_budget_for_category adds a record and raises the category's
\* budget by its amount, and no record is ever changed or dropped.
C10_BudgetIsSumOfRecords ==
    /\ [](\A c \in ExpenseCategory :
             get_budget_amount(c) =
                 SumOver(AmountsOf(category_budget), RowsOfCategory(category_budget, c)))
    /\ [](out.op = "view_budget_for_category"
          => out.val[1] = SumOver(AmountsOf(category_budget),
                                  RowsOfCategory(category_budget, out.category)))
    /\ [][\A c \in ExpenseCats, amt \in BudgetAmts :
             Call_set_budget_for_category(1, c, amt)
             => /\ get_budget_amount(c)' = get_budget_amount(c) + amt
                /\ \A c2 \in ExpenseCategory \ {c} :
                      get_budget_amount(c2)' = get_budget_amount(c2)]_vars
    /\ [][\A i \in DOMAIN category_budget :
             i \in DOMAIN category_budget' /\ category_budget'[i] = category_budget[i]]_vars

\* Budgets of 200 and then 50 were set for Insurance, and the budget shown
\* for Insurance is 250.
C10_Witness ==
    /\ out.op = "view_budget_for_category"
    /\ out.category = "Insurance"
    /\ out.val[1] = 250
    /\ DOMAIN category_budget = {1, 2}
    /\ category_budget[1] = [date |-> 1, category |-> "Insurance", amount |-> 200]
    /\ category_budget[2] = [date |-> 1, category |-> "Insurance", amount |-> 50]

----------------------------------------------------------------------------
(* Properties of the budget view, the id-based operations and the goals'   *)
(* life cycle.                                                             *)

\* C11: view_budget_for_category(c) shows available = budget - expenses with
\* expenses = expense_category_total(c); available is negative exactly when
\* the category's expenses exceed the sum of its budget records, the overrun
\* is flagged exactly then and names -available, and the program keeps
\* running with the store unchanged.
C11_BudgetHeadroom ==
    /\ [](out.op = "view_budget_for_category"
          => LET budget == SumOver(AmountsOf(category_budget),
                                   RowsOfCategory(category_budget, out.category))
                 spent == expense_category_total(out.category)
             IN  /\ out.val[1] = budget
                 /\ out.val[2] = spent
                 /\ out.val[3] = budget - spent
                 /\ (out.val[3] < 0) <=> (spent > budget)
                 /\ (out.msg = "You have exceeded your budget") <=> (spent > budget)
                 /\ out.val[4] = IF spent > budget THEN <<spent - budget>> ELSE NULL
                 /\ status = "running")
    /\ [][\A c \in ExpenseCats :
             Call_view_budget_for_category(c)
             => /\ out'.op = "view_budget_for_category"
                /\ out'.category = c
                /\ status' = "running"
                /\ UNCHANGED db]_vars

\* Household has a budget of 200 and expenses of 500, and its view flags an
\* overrun of 300.
C11_Witness ==
    /\ out.op = "view_budget_for_category"
    /\ out.category = "Household"
    /\ out.val = <<200, 500, -300, <<300>> >>
    /\ out.msg = "You have exceeded your budget"

\* What an id-based operation does with an id its table does not hold.
NotFound(op) ==
    /\ out' = Printed(op, "Invalid id entered.", "", <<>>)
    /\ status' = "running"
    /\ UNCHANGED db

\* C12: update_expense_amount, remove_expense, update_financial_goal_amt,
\* update_allotted_amt and remove_financial_goal, called with an id that is
\* not in their table, print the invalid-id message and leave the four
\* tables as they were.
C12_MissingIdChangesNothing ==
    /\ [][\A id \in Ids \ DOMAIN expenses :
             /\ \A amt \in ExpenseAmts :
                    Call_update_expense_amount(id, amt) => NotFound("update_expense_amount")
             /\ Call_remove_expense(id) => NotFound("remove_expense")]_vars
    /\ [][\A id \in Ids \ DOMAIN financial_goals :
             /\ \A g \in GoalAmts :
                    Call_update_financial_goal_amt(g, id)
                    => NotFound("update_financial_goal_amt")
             /\ \A a \in AllotAmts :
                    Call_update_allotted_amt(a, id) => NotFound("update_allotted_amt")
             /\ Call_remove_financial_goal(id) => NotFound("remove_financial_goal")]_vars

\* update_financial_goal_amt was just refused for id 2 while goal 1 and
\* expense 2 are stored.
C12_Witness ==
    /\ out.op = "update_financial_goal_amt"
    /\ out.msg = "Invalid id entered."
    /\ DOMAIN financial_goals = {1}
    /\ 2 \in DOMAIN expenses

----------------------------------------------------------------------------
(* Goals whose amounts may cancel: float() accepts a negative goal amount, *)
(* so the goals total can be 0 with goals stored.                          *)

SignedGoalAmts == {-1000, 3, 1000}

NextProgress ==
    \/ Call_add_income(1, "Salary", 1000)
    \/ \E g \in SignedGoalAmts, a \in {1, 250} : Call_set_financial_goals(1, g, a)
    \/ \E g \in SignedGoalAmts, id \in Ids : Call_update_financial_goal_amt(g, id)
    \/ \E id \in Ids : Call_remove_financial_goal(id)
    \/ Call_view_financial_progress

SpecProgress == Init /\ [][NextProgress]_vars

GoalAmountsOf(t) == [i \in DOMAIN t |-> t[i].financial_goal_amt]

C13_WitnessRounded ==
    /\ out.op = "view_financial_progress"
    /\ out.pct = <<Ratio(2502, 100)>>

----------------------------------------------------------------------------
(* Properties of the goals: zero amounts, identifiers, life cycle.         *)

\* C14 (fails): a goal amount of 0 given to the goal menu's creation or to
\* its goal amount update never ends the program with a division by zero,
\* and no stored goal has a goal amount of 0 with a progress figure.
C14_ZeroGoalAmountReported ==
    /\ [][\A date_line \in DateLines, allotted_line \in AllottedLines :
             financial_goal_menu_1(date_line, 2, <<"0">>, allotted_line)
             => ~(status' = "crashed" /\ out'.msg = "ZeroDivisionError")]_vars
    /\ [][\A id_line \in IdLines :
             financial_goal_menu_3(id_line, <<"0">>)
             => ~(status' = "crashed" /\ out'.msg = "ZeroDivisionError")]_vars
    /\ [](\A id \in DOMAIN financial_goals : financial_goals[id].financial_goal_amt # 0)

\* C15 (fails): an identifier is never assigned twice.  Stated on the
\* expense menu: when the last operation removed the expense whose id the
\* user entered (still bound to ID), the expense added next gets another id.
C15_IdsNeverReused ==
    [][\A a \in AmountLines :
          (/\ expense_menu_1(HouseholdLines, <<>>, 2, a)
           /\ out.op = "remove_expense"
           /\ out.msg = "EXPENSES"
           /\ ID # NULL)
          => \A i \in DOMAIN expenses' \ DOMAIN expenses : i # Value(ID)]_vars

\* C16: a stored goal stays in financial_goals, with its allotment counted
\* in the allotted total that get_available_funds deducts, through every
\* step except a remove_financial_goal of its own id; an update that brings
\* its progress to 100 or more keeps it.
C16_GoalActiveUntilRemoved ==
    /\ [][\A id \in DOMAIN financial_goals :
             \/ id \in DOMAIN financial_goals'
             \/ /\ out'.op = "remove_financial_goal"
                /\ financial_goals' = Delete(financial_goals, id)]_vars
    /\ [][\A id \in Ids, a \in AllotAmts :
             (Call_update_allotted_amt(a, id) /\ id \in DOMAIN financial_goals)
             => /\ id \in DOMAIN financial_goals'
                /\ financial_goals'[id].allotted_amount = a
                /\ get_available_funds' =
                       get_available_funds + financial_goals[id].allotted_amount - a]_vars
    /\ [](get_available_funds =
              view_total_income - view_total_expenses
              - SumOver(AllottedOf(financial_goals), DOMAIN financial_goals))

\* A goal of 3 has just had 250 allotted (8333.33 percent) and is still
\* stored under its id.
C16_Witness ==
    /\ out.op = "update_allotted_amt"
    /\ out.msg = "Allotted amount updated!"
    /\ \E id \in DOMAIN financial_goals :
          /\ financial_goals[id].financial_goal_amt = 3
          /\ financial_goals[id].allotted_amount = 250
          /\ financial_goals[id].progress = Ratio(833333, 100)

\* C17 (fails): a removed goal stays removed.  Stated on the goal menu:
\* when the last operation removed the goal whose id the user entered
\* (still bound to ID), no next step, a creation included, stores a goal
\* under that id, and an update or a removal of that id is refused.
C17_RemovedIsTerminal ==
    [][(/\ out.op = "remove_financial_goal"
        /\ out.msg = "Financial goal removed!"
        /\ ID # NULL)
       => /\ Value(ID) \notin DOMAIN financial_goals'
          /\ out'.op \in {"update_financial_goal_amt", "update_allotted_amt",
                          "remove_financial_goal"}
             => (ID' = ID => out'.msg = "Invalid id entered.")]_vars

----------------------------------------------------------------------------
(* Goals whose allotment may exceed the funds. *)

LargeAllotAmts == {250, 1500}

NextFunds ==
    \/ Call_add_income(1, "Salary", 1000)
    \/ Call_add_expense(1, "Household", 500)
    \/ \E id \in Ids : Call_remove_expense(id)
    \/ \E g \in {3, 1000}, a \in LargeAllotAmts : Call_set_financial_goals(1, g, a)
    \/ \E id \in Ids : Call_remove_financial_goal(id)

SpecFunds == Init /\ [][NextFunds]_vars

\* C18: with positive available funds and a goal amount other than 0,
\* set_financial_goals stores the goal with the allotment asked for, whether
\* or not the funds cover it, and get_available_funds is then the former
\* value minus the allotment, which is also the figure printed.
C18_CreationGatedOnPositiveFunds ==
    [][\A g \in {3, 1000}, a \in LargeAllotAmts :
          (Call_set_financial_goals(1, g, a) /\ get_available_funds > 0)
          => /\ DOMAIN financial_goals' = DOMAIN financial_goals \cup {NewId(financial_goals)}
             /\ NewId(financial_goals) \notin DOMAIN financial_goals
             /\ \A id \in DOMAIN financial_goals :
                   financial_goals'[id] = financial_goals[id]
             /\ financial_goals'[NewId(financial_goals)].financial_goal_amt = g
             /\ financial_goals'[NewId(financial_goals)].allotted_amount = a
             /\ get_available_funds' = get_available_funds - a
             /\ out'.val = <<get_available_funds - a>>
             /\ status' = "running"]_vars

\* With 500 available a goal with 1500 allotted was created, and the
\* available funds are -1000.
C18_Witness ==
    /\ out.op = "set_financial_goals"
    /\ out.val = <<-1000>>
    /\ get_available_funds = -1000
    /\ \E id \in DOMAIN financial_goals : financial_goals[id].allotted_amount = 1500

\* C19 (fails): the progress stored with every goal is its allotted amount
\* over its goal amount, times 100, rounded to 2 decimals, from creation on.
C19_StoredProgressRounded ==
    \A id \in DOMAIN financial_goals :
        /\ financial_goals[id].financial_goal_amt # 0
        /\ IsPercentTo2Decimals(financial_goals[id].progress,
                                financial_goals[id].allotted_amount,
                                financial_goals[id].financial_goal_amt)

----------------------------------------------------------------------------
(* The views next to the operations that write. *)

ReadStep ==
    \/ Call_view_expenses
    \/ \E c \in ExpenseCats : Call_view_expenses_by_category(c)
    \/ Call_view_income
    \/ \E c \in IncomeCats : Call_view_income_by_category(c)
    \/ \E c \in ExpenseCats : Call_view_budget_for_category(c)
    \/ Call_view_financial_goals
    \/ Call_view_financial_progress

NextReads ==
    \/ Call_add_expense(1, "Household", 500)
    \/ \E id \in Ids : Call_remove_expense(id)
    \/ Call_add_income(1, "Salary", 1000)
    \/ Call_set_budget_for_category(1, "Household", 200)
    \/ Call_set_financial_goals(1, 1000, 250)
    \/ ReadStep

SpecReads == Init /\ [][NextReads]_vars

\* C20: the views (the lists with their totals, the lists by category, the
\* budget view, the goals list and the progress view) write nothing: a step
\* of any of them leaves the four tables as they are, so every total, every
\* category total, every budget, the available funds and the overall
\* progress read afterwards are what they were before.
C20_ReadsChangeNothing ==
    [][ReadStep
       => /\ UNCHANGED db
          /\ status' = "running"
          /\ view_total_expenses' = view_total_expenses
          /\ view_total_income' = view_total_income
          /\ get_available_funds' = get_available_funds
          /\ return_financial_goals_percentage' = return_financial_goals_percentage
          /\ \A c \in ExpenseCategory :
                /\ expense_category_total(c)' = expense_category_total(c)
                /\ get_budget_amount(c)' = get_budget_amount(c)
          /\ \A c \in Range(income_categories) :
                income_category_total(c)' = income_category_total(c)]_vars

\* The Household expenses were just listed (one row, 500) with every table
\* holding a record.
C20_Witness ==
    /\ out.op = "view_expenses_by_category"
    /\ out.category = "Household"
    /\ out.val = <<1, 500>>
    /\ income # <<>>
    /\ category_budget # <<>>
    /\ financial_goals # <<>>

----------------------------------------------------------------------------
(* A second run of the program on the same database file.  sqlite3 opens   *)
(* no transaction for a SELECT: `with db:` only commits what the UPDATE    *)
(* began, so the other run's handlers can commit between the SELECT of a   *)
(* goal update and its UPDATE.  txn holds what the second run has read.    *)

Other_update_allotted_amt_read(allotted, id) ==
    /\ txn = NULL
    /\ id \in DOMAIN financial_goals
    /\ txn' = <<[op |-> "update_allotted_amt", id |-> id, arg |-> allotted,
                 read |-> financial_goals[id].financial_goal_amt]>>
    /\ UNCHANGED <<db, status, out, session>>

\* The UPDATE changes the row of that id if it is still there.
Other_update_allotted_amt_write ==
    /\ txn # NULL
    /\ Value(txn).op = "update_allotted_amt"
    /\ LET allotted == Value(txn).arg
           goal_amount == Value(txn).read
           id == Value(txn).id
       IN  financial_goals' =
               IF goal_amount = 0 \/ id \notin DOMAIN financial_goals
               THEN financial_goals
               ELSE [financial_goals EXCEPT
                        ![id].allotted_amount = allotted,
                        ![id].req_amount = goal_amount - allotted,
                        ![id].progress = RoundedPercent(allotted, goal_amount)]
    /\ txn' = NULL
    /\ UNCHANGED <<expenses, income, category_budget, status, out, session>>

Other_update_financial_goal_amt_read(goal_amt, id) ==
    /\ txn = NULL
    /\ id \in DOMAIN financial_goals
    /\ txn' = <<[op |-> "update_financial_goal_amt", id |-> id, arg |-> goal_amt,
                 read |-> financial_goals[id].allotted_amount]>>
    /\ UNCHANGED <<db, status, out, session>>

Other_update_financial_goal_amt_write ==
    /\ txn # NULL
    /\ Value(txn).op = "update_financial_goal_amt"
    /\ LET goal_amt == Value(txn).arg
           allotted == Value(txn).read
           id == Value(txn).id
       IN  financial_goals' =
               IF goal_amt = 0 \/ id \notin DOMAIN financial_goals
               THEN financial_goals
               ELSE [financial_goals EXCEPT
                        ![id].financial_goal_amt = goal_amt,
                        ![id].req_amount = goal_amt - allotted,
                        ![id].progress = RoundedPercent(allotted, goal_amt)]
    /\ txn' = NULL
    /\ UNCHANGED <<expenses, income, category_budget, status, out, session>>

NextConcurrent ==
    \/ Call_add_income(1, "Salary", 1000)
    \/ Call_set_financial_goals(1, 1000, 250)
    \/ \E id \in Ids : Call_update_allotted_amt(500, id)
    \/ \E id \in Ids : Call_update_financial_goal_amt(3, id)
    \/ \E id \in Ids : Call_remove_financial_goal(id)
    \/ \E id \in Ids : Other_update_allotted_amt_read(1, id)
    \/ Other_update_allotted_amt_write
    \/ \E id \in Ids : Other_update_financial_goal_amt_read(3, id)
    \/ Other_update_financial_goal_amt_write

SpecConcurrent == Init /\ [][NextConcurrent]_vars

\* C21 (fails): with two runs updating the same goal, once no update is
\* between its read and its write every stored goal has
\* req_amount = financial_goal_amt - allotted_amount.
C21_GoalUpdatesAtomic ==
    txn = NULL
    => \A id \in DOMAIN financial_goals :
          financial_goals[id].req_amount =
              financial_goals[id].financial_goal_amt - financial_goals[id].allotted_amount

----------------------------------------------------------------------------
(* The lists by category. *)

NextList ==
    \/ \E d \in Dates, amt \in ExpenseAmts : Call_add_expense(d, "Household", amt)
    \/ Call_add_expense(1, "Insurance", 500)
    \/ \E id \in Ids : Call_update_expense_amount(id, 650)
    \/ \E id \in Ids : Call_remove_expense(id)
    \/ \E d \in Dates : Call_add_income(d, "Salary", 1000)
    \/ \E c \in ExpenseCats : Call_view_expenses_by_category(c)
    \/ Call_view_income_by_category("Salary")

SpecList == Init /\ [][NextList]_vars

\* The place of row i in the list of its category: behind the rows of a
\* later date and behind the rows of its own date that were inserted before
\* it (ids grow with every insert).
PlaceInList(t, i) ==
    1 + Cardinality({j \in DOMAIN t :
                        /\ t[j].category = t[i].category
                        /\ \/ t[j].date > t[i].date
                           \/ t[j].date = t[i].date /\ j < i})

IsListOfCategory(rows, t, category) ==
    /\ Len(rows) = Cardinality(RowsOfCategory(t, category))
    /\ \A i \in RowsOfCategory(t, category) :
          rows[PlaceInList(t, i)] = [date |-> t[i].date, amount |-> t[i].amount]

C22_WitnessDates ==
    /\ out.op = "view_expenses_by_category"
    /\ DOMAIN expenses = {1, 2}
    /\ expenses[1].date = 1
    /\ out.rows = <<[date |-> 2, amount |-> 500], [date |-> 1, amount |-> 500]>>

----------------------------------------------------------------------------
(* The category prompts of the menus that store a category. *)

\* Lines typed at an expense category prompt: out of range, no number, then
\* a number of the menu.
ExpenseCategoryLines == {InsuranceLines, << <<"0">>, <<"-", "1">>, <<"1", "3">> >>}

\* 7 is a number of the expense menu and not of the income menu.
IncomeCategoryLines == {InterestLines, << <<"7">>, <<"6">> >>}

NextCategoryMenu ==
    \/ \E c \in ExpenseCategoryLines : expense_menu_1(c, <<>>, 2, <<"5", "0", "0">>)
    \/ \E c \in IncomeCategoryLines : income_menu_1(c, <<>>, 2, <<"5", "0", "0">>)
    \/ \E c \in ExpenseCategoryLines : menu_7(c, <<>>, 2, <<"2", "0", "0">>)

SpecCategoryMenu == Init /\ [][NextCategoryMenu]_vars

\* The category of the first line that is a number from 1 to the length of
\* the menu, every line before it being refused.
FirstInRange(categories, lines, category) ==
    \E k \in 1..Len(lines) :
        /\ ParseInt(lines[k]) # NULL
        /\ Value(ParseInt(lines[k])) \in 1..Len(categories)
        /\ category = categories[Value(ParseInt(lines[k]))]
        /\ \A j \in 1..(k - 1) :
              \/ ParseInt(lines[j]) = NULL
              \/ Value(ParseInt(lines[j])) \notin 1..Len(categories)

NewRows(t, u) == {u[i] : i \in DOMAIN u \ DOMAIN t}

\* C23: every stored expense and every budget record has a category of the
\* expense menu and every stored income a category of the income menu; a
\* selection that is no number of the menu is asked again, and the record
\* stored has the category of the first selection that is one.
C23_CategoriesFromFixedSets ==
    /\ [](/\ \A i \in DOMAIN expenses : expenses[i].category \in Range(expense_categories)
          /\ \A i \in DOMAIN category_budget :
                category_budget[i].category \in Range(expense_categories)
          /\ \A i \in DOMAIN income : income[i].category \in Range(income_categories))
    /\ [][\A c \in ExpenseCategoryLines :
             expense_menu_1(c, <<>>, 2, <<"5", "0", "0">>)
             => \A row \in NewRows(expenses, expenses') :
                   FirstInRange(expense_categories, c, row.category)]_vars
    /\ [][\A c \in ExpenseCategoryLines :
             menu_7(c, <<>>, 2, <<"2", "0", "0">>)
             => \A row \in NewRows(category_budget, category_budget') :
                   FirstInRange(expense_categories, c, row.category)]_vars
    /\ [][\A c \in IncomeCategoryLines :
             income_menu_1(c, <<>>, 2, <<"5", "0", "0">>)
             => \A row \in NewRows(income, income') :
                   FirstInRange(income_categories, c, row.category)]_vars

\* After 14 and x were refused at the category prompt, an Insurance expense
\* and an Insurance budget are stored, next to an income that was entered
\* as 7, refused, and then as 6.
C23_Witness ==
    /\ \E i \in DOMAIN expenses : expenses[i].category = "Insurance"
    /\ \E i \in DOMAIN category_budget : category_budget[i].category = "Insurance"
    /\ \E i \in DOMAIN income : income[i].category = "Other income"

----------------------------------------------------------------------------
(* Goal updates and removals against the available funds. *)

NextGoalFunds ==
    \/ Call_add_income(1, "Salary", 1000)
    \/ Call_set_financial_goals(1, 1000, 250)
    \/ \E a \in LargeAllotAmts, id \in Ids : Call_update_allotted_amt(a, id)
    \/ \E g \in {3, 1000}, id \in Ids : Call_update_financial_goal_amt(g, id)
    \/ \E id \in Ids : Call_remove_financial_goal(id)

SpecGoalFunds == Init /\ [][NextGoalFunds]_vars

\* C24: after creation no goal operation looks at the available funds.
\* update_financial_goal_amt leaves get_available_funds as it was;
\* update_allotted_amt on a stored id stores any allotment and changes
\* get_available_funds by the old allotment minus the new one;
\* remove_financial_goal on a stored id raises it by the goal's allotment.
C24_GoalMutationsNotGated ==
    /\ [][\A g \in {3, 1000}, id \in Ids :
             Call_update_financial_goal_amt(g, id)
             => get_available_funds' = get_available_funds]_vars
    /\ [][\A a \in LargeAllotAmts, id \in DOMAIN financial_goals :
             Call_update_allotted_amt(a, id)
             => /\ out'.msg = "Allotted amount updated!"
                /\ financial_goals'[id].allotted_amount = a
                /\ get_available_funds' =
                       get_available_funds + financial_goals[id].allotted_amount - a]_vars
    /\ [][\A id \in DOMAIN financial_goals :
             Call_remove_financial_goal(id)
             => /\ id \notin DOMAIN financial_goals'
                /\ get_available_funds' =
                       get_available_funds + financial_goals[id].allotted_amount]_vars

\* With an income of 1000 a goal's allotment was just raised to 1500, and
\* the available funds are negative.
C24_Witness ==
    /\ out.op = "update_allotted_amt"
    /\ out.msg = "Allotted amount updated!"
    /\ view_total_income = 1000
    /\ \E id \in DOMAIN financial_goals : financial_goals[id].allotted_amount = 1500
    /\ get_available_funds < 0

\* C25: update_financial_goal_amt with a goal amount of 0 on a stored id,
\* and update_allotted_amt on a goal whose stored goal amount is 0, leave
\* every goal record as it was, and so does the next start of the program:
\* the division fails before the UPDATE.
C25_FailedUpdateWritesNothing ==
    /\ [][\A id \in DOMAIN financial_goals :
             Call_update_financial_goal_amt(0, id)
             => /\ financial_goals' = financial_goals
                /\ UNCHANGED db]_vars
    /\ [][\A a \in AllotAmts, id \in DOMAIN financial_goals :
             (Call_update_allotted_amt(a, id) /\ financial_goals[id].financial_goal_amt = 0)
             => /\ financial_goals' = financial_goals
                /\ UNCHANGED db]_vars
    /\ [][Start => UNCHANGED db]_vars

\* update_financial_goal_amt has just failed on a goal amount of 0 with a
\* goal of 1000 and 250 allotted stored.
C25_Witness ==
    /\ status = "crashed"
    /\ out.op = "update_financial_goal_amt"
    /\ out.msg = "ZeroDivisionError"
    /\ \E id \in DOMAIN financial_goals :
          financial_goals[id] =
              [date |-> 1, financial_goal_amt |-> 1000, allotted_amount |-> 250,
               req_amount |-> 750, progress |-> Ratio(25, 1)]

----------------------------------------------------------------------------
(* Amount lines that are no number. *)

\* C26 (fails): an add or an amount update whose amount line is no number
\* stores nothing and changes no record, whatever amount or id an earlier
\* request of the session left bound.
C26_InvalidAmountStoresNothing ==
    /\ [][\A a \in AmountLines :
             (ParseFloat(a) = NULL /\ expense_menu_1(HouseholdLines, <<>>, 2, a))
             => UNCHANGED db]_vars
    /\ [][\A a \in AmountLines :
             (ParseFloat(a) = NULL /\ income_menu_1(InterestLines, <<"1">>, 2, a))
             => UNCHANGED db]_vars
    /\ [][\A i \in IdLines, a \in NewAmountLines :
             (ParseFloat(a) = NULL /\ expense_menu_2(i, a))
             => UNCHANGED db]_vars

====
